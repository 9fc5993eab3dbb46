CONSTANTS
  Id = {m1}
  Ver = {v1}
  Cfg = {c1, c2}
  Http = {}
  MaxOps = 3
  MaxDeaths = 0
SPECIFICATION Spec
INVARIANTS
  InAlignment
CHECK_DEADLOCK FALSE
