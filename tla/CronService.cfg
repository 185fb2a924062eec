SPECIFICATION FairSpec
CONSTANTS
  once = once
  daily = daily
  user = user
  Jobs = {once, daily}
  OneShots = {once}
  DeleteAfterRun = {}
  Agents = {daily}
  Manuals = {user}
  Absent = absent
  Period = 2
  Backoff = 1
  Delay = 1
  MaxAttempts = 1
  Outcomes = {"ok", "transient"}
  MaxConcurrent = 1
  MaxImmediate = 1
  StuckAge = 1
  MaxNow = 3
  MaxEvents = 1
  MaxEarly = 1
CHECK_DEADLOCK FALSE
INVARIANTS
  NoOverlap
  MarkersOwned
  SchedulerAlive
PROPERTIES
  OneShotOnce
  NoSlotSkipped
  DueJobsRun
