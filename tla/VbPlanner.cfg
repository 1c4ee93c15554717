SPECIFICATION Spec
CONSTANTS
  Nodes = {1, 2, 3}
  NumVbuckets = 5
  WorkerCount = 2
  Budgets <- MCBudgets
INVARIANT TypeOK
INVARIANT NoDoubleClaim
INVARIANT AllClaimed
INVARIANT FairShares
INVARIANT MappingAgrees
CHECK_DEADLOCK FALSE
