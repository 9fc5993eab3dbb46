CONSTANTS
  Id = {m1}
  Ver = {v1, v2}
  Cfg = {c1, c2}
  Http = {h1}
  MaxOps = 2
  MaxDeaths = 1
SPECIFICATION Spec
INVARIANTS
  ManagerHolds
  RestartKeepsDesired
PROPERTIES
  ImageOutlivesModule
SYMMETRY Symmetry
CHECK_DEADLOCK FALSE
