CONSTANTS
  n1 = n1
  w1 = w1
  Nodes = {n1}
  Workers = {w1}
  None = None
  FirstOwner <- FirstConsumer
  MaxSeq = 2
  Muts = {1, 2}
  NoOpThreshold = 2
  Budgets <- OneFailover
SPECIFICATION SettledSpec
INVARIANT NoMutationSkipped
CHECK_DEADLOCK FALSE
