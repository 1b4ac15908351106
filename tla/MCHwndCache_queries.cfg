SPECIFICATION Spec
CONSTANTS
  Hwnd = {1, 2}
  App = {app}
  NoApp = NoApp
  EmptyName = EmptyName
  NoEntry = NoEntry
  Epoch = 0
  MaxClock = 1
  MaxEvents = 2
  QueueLimit = 2
  ReuseHandles = TRUE
  MayFail = {"write", "read", "enumerate"}
  UserReorders = FALSE
  EarlierStamps = {0}
INVARIANTS
  TypeOK
  CreationOrder
  Reconciled
  AnswerIsStored
PROPERTIES
  SettledKeepsStamp
  OneOrder
