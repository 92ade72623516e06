CONSTANTS
  Replicas = {n1, n2}
  Requests = {q1, q2}
  FastHandlers = TRUE
  MaxRecords = 1
  MaxDrops = 1
  MaxNavs = 3
  SegCap = 3
  UndoCap = 2
  ShelfCap = 1
  MaxEdits = 3
  MaxSends = 2
  Half = 1
  Ahead = 2
  MaxTiles = 7
  Target = 5
  Budget = 2
  Rolls = {0, 1, 2}
  MaxRolls = 7
  Frames = 3
SPECIFICATION SiteSpec
INVARIANTS CacheSound SiteFresh BrowserSound
PROPERTY SiteHonest
CHECK_DEADLOCK FALSE
