SPECIFICATION FairSpec
CONSTANTS
  MaxServices = 2
  MaxStops = 2
  failureThreshold = 1
INVARIANT TypeOK
INVARIANT OneLifePerService
INVARIANT AtMostOneGoroutine
INVARIANT BackoffHasTimer
PROPERTY NoRestartInBackoff
PROPERTY RemovedNeverRuns
PROPERTY QueuedServiceRestarts
PROPERTY StopCompletes
CHECK_DEADLOCK FALSE
