CONSTANTS
  n1 = n1
  w1 = w1
  Nodes = {n1}
  Workers = {w1, w2}
  None = None
  FirstOwner <- FirstConsumer
  MaxSeq = 0
  Muts = {}
  NoOpThreshold = 2
  Budgets <- Rebalances
SPECIFICATION RebalanceSpec
INVARIANT OneOwner
INVARIANT ClaimBacked
INVARIANT StrayStreamCloses
CHECK_DEADLOCK FALSE
