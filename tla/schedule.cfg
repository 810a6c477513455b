SPECIFICATION FairSpec
CONSTANTS
  Reminders = {1, 2}
  Jobs = {1}
  Recurrences <- MCRecurrences
  JobRecurrences <- MCJobRecurrences
  Times = {1}
  Day = 1
  Weekend = {3}
  STALE = 1
  MaxWait = 2
  MaxNow = 3
  MaxCrashes = 1
INVARIANTS ScheduleTypeOK OncePerSlot
PROPERTIES AfterAbsence ComesBack
CHECK_DEADLOCK FALSE
