SPECIFICATION Spec
CONSTANTS
  Proposals <- MCProposals
  PhoneHears = {"proactive", "proposal"}
  RecentTurns = 3
  MaxKeys = 3
  MaxTurns = 2
  MaxLines = 1
  MaxLapses = 1
  MaxCrashes = 1
INVARIANTS TypeOK KeptWhereSaid OutcomeIsLast
CHECK_DEADLOCK FALSE
