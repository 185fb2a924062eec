SPECIFICATION RunnerSpec
CONSTANTS
  all = all
  session = session
  interval = interval
  event = event
  urgent = urgent
  Requests = {interval, event, urgent}
  Interval = interval
  TargetOf <- MCTarget
  PriorityOf <- MCPriority
  CoalesceOf <- MCCoalesce
  CoalesceDelay = 1
  RetryDelay = 2
  MaxHandlers = 1
  Batches = {1, 2}
  MaxFailures = 1
  MaxChanges = 2
CHECK_DEADLOCK FALSE
INVARIANT
  ClockSurvivesPause
