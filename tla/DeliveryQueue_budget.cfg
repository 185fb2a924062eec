SPECIFICATION Spec
CONSTANTS
  d1 = d1
  d2 = d2
  reconnect = reconnect
  Startup = startup
  Gone = gone
  Entries = {d1, d2}
  Kinds <- MCPlain
  Drains = {reconnect}
  Matches <- MCMatches
  MaxRetries = 2
  Budget = TRUE
  MaxCrashes = 1
  MaxFaults = 0
CHECK_DEADLOCK FALSE
INVARIANTS
  AckedNeverReplayed
