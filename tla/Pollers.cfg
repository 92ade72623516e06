CONSTANTS
  OpsReplicas = {"r1", "r2"}
  Interval = 1
  LogKeep = 2
  Window = 2
  Allowed = 2
  MaxRequests = 3
  MaxToggles = 2
  MaxOpsTime = 3
  MaxLog = 5
  MaxHits = 7
  Packs = {"p"}
  PackReplicas = {"r1", "r2"}
  Downloaders = {"c"}
  MaxStreams = 1
  MaxStamp = 2
  MaxPackFaults = 1
  MaxBreaks = 1
  Lines = 2
  ReadCap = 1
  MaxRotations = 1
  MaxFeedFaults = 2
  TopFiles = {"f"}
  MaxTopStamp = 2
  PollServers = {"s1", "s2"}
  LoadServers = {"s1"}
  Reporters = {"p"}
  FailsToQuarantine = 2
  ExpireTicks = 1
  CensorReplicas = {"r1", "r2"}
  MaxModTime = 2
  MaxAdminActs = 2
  MaxCensorEdits = 2
  MaxId = 2
  MaxPerPoll = 1
  ServerCap = 3
  BatchSize = 1
  RateLimits = 1
  MaxFaults = 2
SPECIFICATION PollersSpec
INVARIANTS OpsSound FilesSound
PROPERTY PollersWork
CHECK_DEADLOCK FALSE
