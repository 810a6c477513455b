SPECIFICATION FairSpec
CONSTANTS
  MaxId = 2
  TTL = 1
  MaxNow = 1
  MaxCrashes = 1
  body = body
  account = account
  v1 = v1
  v2 = v2
  Unknown = Unknown
  NoArgs = NoArgs
  Turns = {t1}
  Fields <- MCFields
  Values <- MCValues
  Fixed <- MCFixed
INVARIANTS TypeOK AtMostOnce RunsWhatWasShown ReportsWhatHappened NoTwinCards
PROPERTIES SettledIsFinal NotAfterTTL Implements ApprovedSettles
CHECK_DEADLOCK FALSE
