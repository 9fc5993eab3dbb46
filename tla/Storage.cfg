SPECIFICATION MCSpec
CONSTANTS
  MaxCuts = 2
  MaxApplies = 2
  Req = {r1, r2}
  Artifact = {x, y}
  Signed = {x}
  Cam = {c1, c2}
  MaxEp = 2
  Buf = 1
  MaxCrashes = 2
INVARIANTS
  
  InstalledAsAsked
  
PROPERTIES
  BadImageIsLeft
  WorkEnds
  AutoStopsItsOwn
CHECK_DEADLOCK FALSE
