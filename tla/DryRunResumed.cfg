SPECIFICATION CommandsSpec
CONSTANTS
  Cases <- MCCases
  RawPlan <- MCRawPlan
  ImportMaxDepth = 1
  Sanitize <- Sane
  Specs <- MCSpecs
  MaxMetric = 2
  Results <- MCResults
  StoneLimit = 1
  MaxEdits = 2
  MaxSessions = 2
  Finding = {"SEC1"}
  FailedSets <- MCFailedSets
  Configs <- MCConfigs
  NPlans = 3
  MaxOthers = 1
  MaxRunCost = 2
  MaxDay = 2
  Week = 2
  Month = 3
  MultiConfigs <- MCMultiConfigs
  PlanFiles <- MCPlanFiles
  Suffix <- MCApart
  CommandLines <- MCCommandLines
  Terminals = {w1, w2}
  MaxRuns = 2
INVARIANT TakenOverWasRun
CHECK_DEADLOCK FALSE
