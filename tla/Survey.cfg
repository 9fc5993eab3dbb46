SPECIFICATION Spec
CONSTANTS
  Tag = {1, 2}
  Baseline <- MCBaseline
  Overrides <- MCOverrides
  ReturnHome = TRUE
  Dwell = 2
  MaxPause = 2
  GateQueue = 0
  ModuleQueue = 1
  MaxCount = 2
  MaxSwitches = 1
  MaxEdits = 2
  MaxDeaths = 1
INVARIANTS PlanIsFollowed RestartKeepsPlan
PROPERTIES DwellIsServed
