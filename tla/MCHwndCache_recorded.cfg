SPECIFICATION Spec
CONSTANTS
  Hwnd = {1}
  App = {app}
  NoApp = NoApp
  EmptyName = EmptyName
  NoEntry = NoEntry
  Epoch = 0
  MaxClock = 1
  MaxEvents = 2
  QueueLimit = 2
  ReuseHandles = TRUE
  MayFail = {"process"}
  UserReorders = FALSE
  EarlierStamps = {0}
INVARIANTS CreationTimeRecorded
