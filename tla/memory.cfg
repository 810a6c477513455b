SPECIFICATION Spec
CONSTANTS
  Threads = {t1, t2}
  work = work
  was = was
  now = now
  Topics <- MCTopics
  Vals <- MCVals
  Left <- MCLeft
  K = 1
  Budget = 1
  Margin = 1
  MinInsight = 1
  MaxFilings = 2
  MaxClaims = 1
  MaxCrashes = 1
SYMMETRY Symmetry
INVARIANTS TypeOK  QuietIsKept
CHECK_DEADLOCK FALSE
