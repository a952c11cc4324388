SPECIFICATION ResumeSpec
CONSTANTS
  Task <- MCTask
  Plans <- SessionPlans
  Outcomes <- SessionOutcomes
  MaxCost <- MCMaxCost
  MaxSessions = 2
INVARIANTS
  AchievementsSurvive
  ResumeCompletes
PROPERTIES
  RunsProgress
