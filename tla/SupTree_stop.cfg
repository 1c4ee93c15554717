SPECIFICATION Spec
CONSTANTS
  MaxServices = 2
  MaxStops = 1
  failureThreshold = 1
INVARIANT StopHearsEveryService
CHECK_DEADLOCK FALSE
