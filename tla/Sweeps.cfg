CONSTANTS
  TIds = {1, 2}
  TCodes = {1}
  TPlayers = {"p"}
  TMaps = {"m"}
  TReplicas = {"r1"}
  TJoiners = {"j1"}
  TMaxTime = 3
  TLen = 1
  TStep = 1
  TGap = 0
  TMaxRuns = 1
  TMaxEdits = 2
  AggReplicas = {"r1", "r2"}
  RefreshDebounce = 2
  RefreshMaxWait = 3
  SrKeep = 2
  MaxWrites = 2
  MaxAggFaults = 1
  MaxSrDay = 1
  AchReplicas = {"r1", "r2"}
  AchPlayers = {"p"}
  MaxAchDay = 1
  MaxAchFaults = 1
  RulePlayers = {"a", "b"}
  RuleMaps = {"m1", "m2"}
  RuleStrafe = {"m1"}
  Measures = {1, 2}
  Legacy <- LegacyPairs
  LastDay = 3
  MonthDays = 2
  RollDays = 1
  MaxRuleRuns = 2
  MgWorkers = {"w1", "w2"}
  MgServers = {"s"}
  Identities = {"i"}
  PerIdentity = 1
  MgBudget = 2
  MaxJobs = 2
  MaxMgDay = 2
  MaxMgFaults = 1
  SlowWorkers = FALSE
SPECIFICATION SweepsSpec
INVARIANTS AggSound AwardsSound MapgenSound
PROPERTIES SweepsKeep SweepsEnd
CHECK_DEADLOCK FALSE
