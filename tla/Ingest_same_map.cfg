CONSTANTS
  Txs = {t1, t2}
  Reqs = {"a", "b", "c"}
  Request <- SameRequest
  Players = {"p", "q"} Maps = {"m1"} Versions = {"v1", "v2"}
  KeyOf <- SharedKey
  MaxAttempts = 5 MaxRank = 1 IdBound = 6 MaxDeliveries = 2
SPECIFICATION Spec
INVARIANTS BestOnRecord RanksExact CountedPerCommit
PROPERTY ImplementsFeed
SYMMETRY TxSymmetry
CHECK_DEADLOCK FALSE
