SPECIFICATION FairSpec
CONSTANTS
  Name = {1, 2}
  Keystroke = {"windows+z"}
  NoKey = NoKey
  DefaultKey = "windows+z"
  None = None
  NoFile = NoFile
  Torn = Torn
  Live = Live
  OfPanel = OfPanel
  MaxDialogs = 1
  MaxEntries = 2
  MaxSaves = 3
INVARIANTS
  TypeOK
  SavedIsWanted
  EntriesAreUnique
  KeystrokesFindEntries
PROPERTIES
  InstallerEnds
CHECK_DEADLOCK FALSE
