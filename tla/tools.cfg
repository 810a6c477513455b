SPECIFICATION Spec
CONSTANTS
  Base = {"remind_me"}
  Personal = {"set_dial"}
  Servers <- MCServers
  Offers <- MCOffers
  AllowList <- MCAllowList
  Deny <- MCDeny
  Propose <- MCPropose
  Required <- MCRequired
  ReadOnly <- MCServers
  Mutating <- MCMutating
  Expectable = {"remind_me"}
  MaxRounds = 2
  WorkerRounds = 1
  MaxWorkers = 2
INVARIANTS TypeOK Confined HealthIsTrue
PROPERTY EverythingEnds
CHECK_DEADLOCK FALSE
