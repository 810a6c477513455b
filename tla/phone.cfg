SPECIFICATION Spec
CONSTANTS
  p1 = p1
  Proposals <- MCProposals
  MaxSent = 2
  MaxFaults = 2
  MaxCrashes = 2
INVARIANTS TypeOK LiveButtonsExplained
PROPERTIES HandledInItsTime EveryUpdateTakenUp
CHECK_DEADLOCK FALSE
