CONSTANTS
  MaxFrame = 3
  MaxRun = 2
  Room = 1
  Wheel = {w}
  Joint = {a, b}
  MaxMsg = 2
  MaxMode = 2
  MaxStart = 2
  People = {p, q}
  MaxLogins = 4
  MaxRestarts = 1
  Admin = {m}
  Users = {u}
  Rovers = {r, s}
  JwtTTL = 1
  MaxClock = 3
  MaxEdits = 3
  Browser = {x, y}
  LinkTTL = 1
  SessionTTL = 2
  MaxTokens = 2
  MaxBoots = 2
  Repo = {g}
  MaxVer = 2
  Apply = {a1, a2}
  MaxUploads = 2
  MaxOps = 4
  MaxAsked = 2
  MaxFaults = 1
  Server = {c, d, e}
  Sensor = {e}
  MaxTicks = 2
  MaxLives = 2
  MaxAlerts = 1
  Reannounce = 2
  Width = 8
  MaxPolls = 3
  MaxSteps = 1
  MaxEvents = 2
  MaxKey = 3
SPECIFICATION Spec
INVARIANTS
  FramesAreWhole
  
  
  
  
  
  
  
  HubHolds
  
  
CHECK_DEADLOCK FALSE
