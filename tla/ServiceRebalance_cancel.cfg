SPECIFICATION FairSpec
CONSTANT Ids = {1}
CONSTANT Type <- MCType
CONSTANT Keep <- MCKeep
CONSTANT Staleness = 1
CONSTANT MaxAttempts = 2
CONSTANT MaxVbs = 2
CONSTANT MaxCalls = 3
CONSTANT MaxMoves = 1
CONSTANT MaxFaults = 0
PROPERTY CancelReturns
CHECK_DEADLOCK FALSE
