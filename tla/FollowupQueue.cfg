SPECIFICATION FairSpec
CONSTANTS
  d1 = d1
  d2 = d2
  d3 = d3
  d4 = d4
  m1 = m1
  m2 = m2
  m3 = m3
  m4 = m4
  alice = alice
  bob = bob
  Deliveries = {d1, d2, d3, d4}
  MessageOf <- MCMessage
  SenderOf <- MCSender
  RouteOf <- MCRoute
  SettingsOf <- MCSettings
  Cap = 2
  Queues = {1, 2}
  MaxClears = 1
  MaxThrows = 1
  MaxEmbedded = 1
CHECK_DEADLOCK FALSE
INVARIANTS
  NothingLost
  RunsOnce
  OneSenderPerRun
PROPERTIES
  TakesOnlyWaiting
  FollowupsHandled
