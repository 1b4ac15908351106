SPECIFICATION Spec
CONSTANTS
  Hwnd = {h1, h2}
  MaxBootTime = 30
  MinUptime = 9
  MaxDrift = 4
  MaxUnsynced = 3
INVARIANTS TypeOK StampsOfThisBoot RestartKeepsStamps
