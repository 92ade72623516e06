\* Room in the queue and the loader, an API that may fail every exchange, a
\* stop at any moment and a second boot: the drain ends and costs one timeout,
\* no report is lost, and reports and fetches are answered.
CONSTANTS
    r1 = r1
    r2 = r2
    j1 = j1
    s1 = s1
    Reports = {r1, r2}
    Oversized = {}
    Slots = {s1}
    Joins = {j1}
    QueueMax = 5
    SpoolLoadMax = 2
    MaxAttempts = 2
    SpoolCanFail = FALSE
    MaxGen = 1
    MaxCrashes = 0
    MaxBoots = 2
SPECIFICATION FairSpec
INVARIANTS DrainCost NothingLost
PROPERTIES DrainTerminates EventuallySettled FetchAnswered
CHECK_DEADLOCK FALSE
