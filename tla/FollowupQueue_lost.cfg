SPECIFICATION Spec
CONSTANTS
  d1 = d1
  d2 = d2
  d3 = d3
  d4 = d4
  m1 = m1
  m2 = m2
  m3 = m3
  m4 = m4
  alice = alice
  bob = bob
  Deliveries = {d1, d2, d3, d4}
  MessageOf <- MCDistinct
  SenderOf <- MCOneSender
  RouteOf <- MCOneRoute
  SettingsOf <- MCDefaults
  Cap = 2
  Queues = {1, 2}
  MaxClears = 0
  MaxThrows = 0
  MaxEmbedded = 0
CHECK_DEADLOCK FALSE
INVARIANT
  DroppedOrRun
