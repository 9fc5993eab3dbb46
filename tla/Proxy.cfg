CONSTANTS
  Rover = {r1, r2}
  Handler = {h1, h2}
  MaxAcc = 2
  MaxOps = 3
  Target = {t1}
  San = {s1, s2}
  MaxVer = 2
  MaxRequests = 4
SPECIFICATION MCSpec
INVARIANTS
  FleetIsTrue
  
SYMMETRY Symmetry
CHECK_DEADLOCK FALSE
