SPECIFICATION Spec
CONSTANTS
  Task <- MCTask
  Plans <- ConditionPlans
  Outcomes <- Succeeds
  MaxCost <- MCMaxCost
INVARIANT
  SuccessMeansAllDecided
