CONSTANTS
  n1 = n1
  w1 = w1
  Nodes = {n1}
  Workers = {w1}
  None = None
  FirstOwner <- FirstConsumer
  MaxSeq = 3
  Muts = {1, 3}
  NoOpThreshold = 2
  Budgets <- StreamFaults
SPECIFICATION Spec
INVARIANT TypeOK
INVARIANT NoMutationSkipped
PROPERTY ImplementsContract
CHECK_DEADLOCK FALSE
