SPECIFICATION Spec
CONSTANTS
  NWheels = 2
  NModule = 1
  Speeds = {0, 1}
  LossyBus = FALSE
  MaxRestarts = 1
INVARIANTS
  TypeOK
  NoDriveOutsideAuthority
  WheelsStopped
  EstopFreezesModules
