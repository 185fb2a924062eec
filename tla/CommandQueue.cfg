SPECIFICATION FairSpec
CONSTANTS
  e1 = e1
  e2 = e2
  e3 = e3
  main = main
  probe = probe
  Lanes = {main, probe}
  Entries = {e1, e2, e3}
  LaneOf <- MCLaneOf
  Timed = {e1}
  ProbeLanes = {probe}
  Levels <- MCLevels
  Waiters = {w1}
  TimedWaiters = {w1}
  MaxGeneration = 1
INVARIANTS
  TypeOK
  WorkConserving
  SlotsAreOwned
  PendingAccounted
  WaitersHaveCause
PROPERTIES
  PumpWithinLimit
  ImplementsContract
  CallsAnswered
  WaitersAnswered
