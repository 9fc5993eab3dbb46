SPECIFICATION Spec
CONSTANTS
  Cam = {c1}
  MaxEp = 1
  Buf = 1
  MaxCrashes = 2
INVARIANT
  ClosingIsSafe
CHECK_DEADLOCK FALSE
