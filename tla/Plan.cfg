SPECIFICATION FairSpec
CONSTANTS
  StepId = {1, 2, 3}
  Stage = {1, 2}
  Plans <- MCPlans
  MaxSteps = 2
  MaxTokens = 2
  MaxReplans = 2
  MaxPlannerRetries = 1
  TurnTokens = 1
  Environment = {"disconnect", "raise", "commit_fault", "cancel"}
INVARIANTS DependenciesDone ToolsStopWithRun SucceedsOnce CompletedPlan
PROPERTIES KeepsContract RunEnds
CHECK_DEADLOCK FALSE
