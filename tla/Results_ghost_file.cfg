CONSTANTS
  TIds = {1, 2}
  TCodes = {1, 2}
  TPlayers = {"p"}
  TMaps = {"m"}
  TReplicas = {"r1"}
  TJoiners = {"j1", "j2"}
  TMaxTime = 2
  TLen = 1
  TStep = 1
  TGap = 0
  TMaxRuns = 1
  TMaxEdits = 2
  Months = {0, 1, 2}
  CupMaps = {"a"}
  CupReplicas = {"r1", "r2"}
  MaxSkipStreak = 1
  MaxOperator = 2
  Uploaders = {"u1", "u2"}
  RunTimes = {1, 2, 3}
  MaxVolumeResets = 0
  MaxUploads = 2
  MaxGhostCrashes = 1
  Nicks = {"a1", "a2", "b"}
  NickKey <- NameKey
  Resolvers = {"d1", "d2"}
  MaxRebuilds = 1
  LoadServers = {"s1", "s2"}
  Reporters = {"p"}
  FailsToQuarantine = 2
  ExpireTicks = 1
  CensorReplicas = {"r1", "r2"}
  MaxModTime = 2
  MaxAdminActs = 2
  MaxCensorEdits = 2
SPECIFICATION ResultsSpec
INVARIANT FileIsRow
CHECK_DEADLOCK FALSE
