SPECIFICATION FairSpec
CONSTANTS
  Window = {1, 2, 3}
  Entry = {"editor", "browser"}
  Match <- Matches
  Titled = {"editor"}
  Index <- Indices
  NoEntry = None
  Other = Other
  StartMenu = StartMenu
  Hide = "hide"
  Show = "show"
  AnyKey = "any"
  MaxKeys = 3
  MaxEvents = 2
INVARIANTS
  TypeOK
  HighToneMeansAllVisited
  LastSwitchWins
  HiddenAreRemembered
PROPERTIES
  PromptPressAdvances
  PressesAreHandled
CHECK_DEADLOCK FALSE
