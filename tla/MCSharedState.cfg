SPECIFICATION SharedSpec
CONSTANTS
  RoutedPlans <- MCRoutedPlans
  ModelTiers <- MCModelTiers
  MinManifests = 2
  MaxManifests = 3
  MinModelRuns = 2
  TrendWindow = 1
  FullConfidence = 3
  PlanHash = {1, 2, 3}
  SimHash <- MCSimHash
  MinRuns = 2
  RecentRuns = 3
  Horizon = 1
  VariantsPerRound = 2
  MaxRounds = 2
  MaxRunsKept = 2
  MaxDay = 1
  MaxSearches = 1
  PlanNames = {"x", "y"}
  TriggerIteration = 3
  RecentTail = 2
  HistoryLimit = 2
  ListLimit = 1
  MaxSnapshots = 2
  MaxLessons = 2
  MaxIterations = 5
  MaxCrashes = 1
  MaxRenames = 1
  Thread = {"main", "worker"}
  Payload = {"a", "b"}
  MaxEvents = 4
  Process = {1, 2}
  UpstreamCached = TRUE
  TTL = 1
  MaxVersion = 2
  MaxNow = 1
  Task = {"a.b", "a-b"}
  Namings <- MCNamings
  File = {"f", "g"}
  MaxSessions = 2
  Started = {"r1", "r2"}
  Streams = {"s1", "s2"}
  RunIds = {"k"}
  Steps = {"t"}
  QueueSize = 2
  MRuns = {"m1", "m2"}
  MTasks = {"a", "b"}
  Worded = {"a"}
  Cluster <- MCCluster
  Hits <- MCHits
  Commands <- MCCommands
  Results <- MCResults
  Earlier <- MCEarlier
  MaxTold = 1
  MaxIndexed = 2
  MinCount = 2
  ZScore = 1
INVARIANTS
  VerdictExact
  HitIsCurrent
  MergesAccounted
  ResultWhereAsked
  StreamTellsTrue
  EvidenceCountedOnce
  IterationsTold
  HistoryMovesOneTier
PROPERTIES
  QuarantineKept
CHECK_DEADLOCK FALSE
