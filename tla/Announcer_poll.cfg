CONSTANTS MaxId = 3 MaxPerPoll = 2 ServerCap = 3 BatchSize = 1 RateLimits = 1 MaxFaults = 2
SPECIFICATION Spec
INVARIANTS TypeOK SkipsOnlyInWindow AnnouncedTwiceOnlyInDoubt
PROPERTY CursorForward
