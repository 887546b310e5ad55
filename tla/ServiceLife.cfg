SPECIFICATION FairSpec
CONSTANTS
  MaxStarts = 2
  Zombie = 1
  MaxQueue = 1
PROPERTIES StartsRemember StopTerminates GoneServicesLeave
CHECK_DEADLOCK FALSE
