SPECIFICATION EventsSpec
CONSTANTS
  Pages = {p1}
  MaxLines = 4
  Asks <- MCAsks
  Limit = 2
  MaxBreaks = 1
  MaxCrashes = 0
PROPERTY SkipsOnlyTheReplayed
CHECK_DEADLOCK FALSE
