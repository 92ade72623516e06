CONSTANTS
  Txs = {t1, t2}
  Reqs = {"a", "b", "c"}
  Request <- NewRequest
  Players = {"p", "q"} Maps = {"m1", "m2"} Versions = {"v1", "v2"}
  KeyOf <- SharedKey
  MaxAttempts = 5 MaxRank = 1 IdBound = 6 MaxDeliveries = 1
SPECIFICATION Spec
PROPERTY NeverSeized
CHECK_DEADLOCK FALSE
