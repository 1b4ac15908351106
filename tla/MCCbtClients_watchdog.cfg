SPECIFICATION FairSpec
CONSTANTS
  arches <- OneArch
  MAX_CBT_RESTART_COUNT = 4
  SpawnPolls = 2
  KillPolls = 2
  MaxFaults = 3
INVARIANTS
  TypeOK
  OneClientHolds
  SpawnsBounded
  NoSurvivor
  NoRestartAfterTerminate
PROPERTIES
  HookComesBack
  HookServed
CHECK_DEADLOCK FALSE
