SPECIFICATION FairSpec
CONSTANT Ids = {1, 2, 3}
CONSTANT Type <- MCType
CONSTANT Keep <- MCKeep
CONSTANT Staleness = 2
CONSTANT MaxAttempts = 2
CONSTANT MaxVbs = 2
CONSTANT MaxCalls = 5
CONSTANT MaxMoves = 1
CONSTANT MaxFaults = 1
INVARIANT TypeOK
INVARIANT TaskBacked
INVARIANT CallbackOfCurrent
INVARIANT TokenOfRunning
INVARIANT BalancedMeansFinished
INVARIANT WaiterUpToDate
INVARIANT TopologySeen
PROPERTY RebalanceEnds
PROPERTY LocksReleased
CHECK_DEADLOCK FALSE
