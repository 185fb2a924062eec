SPECIFICATION Spec
CONSTANTS
  d1 = d1
  d2 = d2
  reconnect = reconnect
  Startup = startup
  Gone = gone
  Entries = {d1}
  Kinds <- MCAllKinds
  Drains = {reconnect}
  Matches <- MCMatches1
  MaxRetries = 2
  Budget = TRUE
  MaxCrashes = 2
  MaxFaults = 2
CHECK_DEADLOCK FALSE
INVARIANTS
  OneSender
  AckedNotReplayed
  MarkedNotReplayed
  RetriesBounded
  ClaimsOwned
  StrictNotLost
