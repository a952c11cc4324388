SPECIFICATION Spec
CONSTANTS
  Task <- MCTask
  Plans <- MCPlans
  Outcomes <- MCOutcomes
  MaxCost <- MCMaxCost
INVARIANTS
  EveryTaskAccountedFor
  DependenciesFirst
  SkipsJustified
  OvershootBounded
  ReplayFaithful
PROPERTIES
  StoppedForGood
  RunSpec
