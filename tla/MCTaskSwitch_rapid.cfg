SPECIFICATION Spec
CONSTANTS
  Window = {1, 2, 3}
  Entry = {"editor", "browser"}
  Match <- Matches
  Titled = {"editor"}
  Index <- Indices
  NoEntry = None
  Other = Other
  StartMenu = StartMenu
  Hide = "hide"
  Show = "show"
  AnyKey = "any"
  MaxKeys = 2
  MaxEvents = 0
PROPERTIES
  EveryPressAdvances
CHECK_DEADLOCK FALSE
