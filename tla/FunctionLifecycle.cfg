SPECIFICATION LiveSpec
CONSTANTS
  f1 = f1
  src = src
  meta = meta
  p1 = p1
  p2 = p2
  w1 = w1
  w2 = w2
  None = None
  Fns = {f1}
  Prods = {p1, p2}
  Buckets = {src, meta}
  Source <- MCSource
  Meta <- MCMeta
  Twin <- MCTwin
  Budgets <- MCBudgets
  MaxQueue = 2
INVARIANT TypeOK
INVARIANT SettledAgrees
 
INVARIANT BootstrapExclusive
 
PROPERTY Settles
CHECK_DEADLOCK FALSE
