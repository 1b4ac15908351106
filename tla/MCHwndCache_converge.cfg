SPECIFICATION FairSpec
CONSTANTS
  Hwnd = {1, 2}
  App = {app, other}
  NoApp = NoApp
  EmptyName = EmptyName
  NoEntry = NoEntry
  Epoch = 0
  MaxClock = 0
  MaxEvents = 2
  QueueLimit = 2
  ReuseHandles = FALSE
  MayFail = {"process"}
  UserReorders = TRUE
  EarlierStamps = {0}
INVARIANTS
  AnswerBelongsToApp
  UserOrderKept
PROPERTIES
  OneOrder
  CacheConverges
