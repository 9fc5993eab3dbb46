SPECIFICATION FairSpec
CONSTANTS
  Tag = {}
  Baseline <- MCUnseen
  Overrides = {}
  ReturnHome = TRUE
  Dwell = 2
  MaxPause = 1
  GateQueue = 1
  ModuleQueue = 1
  MaxCount = 1
  MaxSwitches = 2
  MaxEdits = 0
  MaxDeaths = 1
PROPERTIES AuthorityEnds MissionEnds
