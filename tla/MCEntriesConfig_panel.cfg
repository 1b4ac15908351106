SPECIFICATION Spec
CONSTANTS
  Name = {1, 2}
  Keystroke = {"windows+z"}
  NoKey = NoKey
  DefaultKey = "windows+z"
  None = None
  NoFile = NoFile
  Torn = Torn
  Live = Live
  OfPanel = OfPanel
  MaxDialogs = 2
  MaxEntries = 2
  MaxSaves = 3
INVARIANTS
  CreatedIsKept
CHECK_DEADLOCK FALSE
