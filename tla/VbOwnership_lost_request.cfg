CONSTANTS
  n1 = n1
  w1 = w1
  Nodes = {n1}
  Workers = {w1}
  None = None
  FirstOwner <- FirstConsumer
  MaxSeq = 1
  Muts = {1}
  NoOpThreshold = 2
  Budgets <- OneEnd
SPECIFICATION FairSpec
PROPERTY PlannedOwnerStreams
CHECK_DEADLOCK FALSE
