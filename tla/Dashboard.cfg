CONSTANTS
  Sub = {1, 2}
  Pattern = {p1, p2}
  MaxPub = 3
  Cap = 1
  Viewer = {v1}
  MaxCam = 2
  MaxHiccups = 2
  MaxPoller = 2
  MaxFaults = 3
  Operator = {u1, u2}
  MaxEvents = 3
SPECIFICATION Spec
INVARIANTS
  FeedsHold
  
PROPERTIES
  IsFeed
  Arrives
  FeedReturns
  HealthConverges
  OutageEnds
CHECK_DEADLOCK FALSE
