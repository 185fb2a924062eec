SPECIFICATION AgentFairSpec
CONSTANTS
  s1 = s1
  r1 = r1
  c = c
  cs = cs
  cr = cr
  main = main
  sess = sess
  cron = cron
  nested = nested
  Lanes = {main, sess, cron, nested}
  SessionLanes = {sess}
  Cron = cron
  CronNested = nested
  Limits = {1}
  Entries = {c, cs, cr, s1, r1}
  Parents <- MCCronParents
  Child <- MCCronChild
  GlobalCalls = {cr, r1}
  RequestedLane <- MCCronLane
  Timed = {cr, r1}
  Waiters = {w1}
  TimedWaiters = {w1}
  MaxGeneration = 1
  MaxReloads = 0
  MaxSuspensions = 1
CHECK_DEADLOCK FALSE
INVARIANTS
  SessionExclusive
PROPERTIES
  EveryCallAnswered
