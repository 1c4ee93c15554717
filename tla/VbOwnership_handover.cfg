CONSTANTS
  n1 = n1
  w1 = w1
  Nodes = {n1, n2}
  Workers = {w1}
  None = None
  FirstOwner <- FirstConsumer
  MaxSeq = 1
  Muts = {1}
  NoOpThreshold = 2
  Budgets <- Handovers
SPECIFICATION SettledSpec
INVARIANT NoMutationSkipped
INVARIANT OneOwner
PROPERTY ImplementsContract
CHECK_DEADLOCK FALSE
