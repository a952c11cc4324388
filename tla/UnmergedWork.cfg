CONSTANTS
  Model <- MCModel
  Specs <- WorktreeTasks
SPECIFICATION Spec
PROPERTY NothingLost
