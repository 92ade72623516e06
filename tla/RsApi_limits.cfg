\* Everything at its limit: a queue of two, a loader that keeps one line, a
\* crash, a second boot, slots re-issued, a report, a fetch and a join
\* competing for the queue.
CONSTANTS
    r1 = r1
    r2 = r2
    s1 = s1
    j1 = j1
    Reports = {r1, r2}
    Oversized = {}
    Slots = {s1}
    Joins = {j1}
    QueueMax = 2
    SpoolLoadMax = 1
    MaxAttempts = 1
    SpoolCanFail = FALSE
    MaxGen = 2
    MaxCrashes = 1
    MaxBoots = 2
SPECIFICATION Spec
INVARIANTS TypeOK Accounted HeldOnce QueueBound FreshUnlessRaced
PROPERTIES EvictionLadder
SYMMETRY ReportSymmetry
CHECK_DEADLOCK FALSE
