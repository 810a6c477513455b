SPECIFICATION FairSpec
CONSTANTS
  Pages = {p1}
  MaxLines = 4
  Asks <- MCAsks
  Limit = 2
  MaxBreaks = 1
  MaxCrashes = 2
INVARIANTS TypeOK InOrderOnce CaughtUp
PROPERTIES Arrives
CHECK_DEADLOCK FALSE
