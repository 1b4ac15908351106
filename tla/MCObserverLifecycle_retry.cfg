SPECIFICATION Spec
CONSTANTS
  MaxLoads = 1
  MaxInbox = 1
INVARIANT
  PurgeAndRetry
CHECK_DEADLOCK FALSE
