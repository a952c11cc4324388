CONSTANTS
  Model <- MCModel
  Specs <- MCSpecs
  CouncilTasks <- MCCouncilTasks
  NoRole = "none"
  NoModel = "default"
  StreamAttempts = 2
  Timeout = 1
  Extension = 1
  JoinTime = 1
  MaxSignals = 1
  MaxLines = 2
  MaxTime = 12
  Scale = 4
  Judges <- MCJudges
  JudgedOutputs <- MCJudged
  JudgeAttempts = 3
  Upstream <- MCUpstream
  Consumers <- MCConsumers
  Outputs <- MCOutputs
  Breaker = 2
  DefaultBudget = 6
  Share <- MCShare
  Title = 1
  Findings = 3
  Header = 1
  Mark = 1
SPECIFICATION PartsSpec
INVARIANTS
  SuccessEarned
  PublishedIsChecked
  LaunchOrder
  VoicesHeard
  AttemptsApart
  CutToFit
PROPERTIES
  AttemptsSpec
  WorkerAnswers
  TimeoutKept
  StreamReturns
  VerdictGrounded
CHECK_DEADLOCK FALSE
