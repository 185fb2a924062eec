SPECIFICATION FairRunnerSpec
CONSTANTS
  all = all
  session = session
  interval = interval
  event = event
  urgent = urgent
  Requests = {interval, event, urgent}
  Interval = interval
  TargetOf <- MCTarget
  PriorityOf <- MCPriority
  CoalesceOf <- MCCoalesce
  CoalesceDelay = 1
  RetryDelay = 1
  MaxHandlers = 2
  Batches = {1, 2}
  MaxFailures = 1
  MaxChanges = 1
CHECK_DEADLOCK FALSE
INVARIANTS
  RunnerTypeOK
  NoStrandedWake
  NoForgottenRequest
  UrgencyKept
  OneBatchPerHandler
  ClockKept
PROPERTIES
  EventsHandled
