SPECIFICATION FairSpec
CONSTANTS
  NWheels = 2
  NModule = 0
  Speeds = {0, 1}
  LossyBus = FALSE
  MaxRestarts = 0
PROPERTIES
  AgentDeathStops
  StaleStreamStops
