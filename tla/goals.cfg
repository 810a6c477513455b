SPECIFICATION FairSpec
CONSTANTS
  MaxGoals = 2
  MaxSteps = 2
  Plans <- MCPlans
  MaxCrashes = 1
INVARIANT TypeOK
PROPERTIES RecordedWhereWorked Tended
CHECK_DEADLOCK FALSE
