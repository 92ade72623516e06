CONSTANTS
  Txs = {t1, t2, t3}
  Reqs = {"a", "b", "c"}
  Request <- CrossRequest
  Players = {"p", "q"} Maps = {"m1", "m2"} Versions = {"v1", "v2"}
  KeyOf <- SharedKey
  MaxAttempts = 2 MaxRank = 1 IdBound = 6 MaxDeliveries = 1
SPECIFICATION FairSpec
INVARIANT CyclesCrossVersions
PROPERTY Answered
CHECK_DEADLOCK FALSE
