SPECIFICATION FairSpec
CONSTANTS
  MaxLoads = 5
  MaxInbox = 3
INVARIANTS
  TypeOK
  OpenUnlessOrphaned
  AbortNeedsThreeLoads
PROPERTY
  TerminateReturns
CHECK_DEADLOCK FALSE
