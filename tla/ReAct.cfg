SPECIFICATION FairSpec
CONSTANTS
  Text = {empty, a, b}
  EmptyText = empty
  NoText = NoText
  MaxLoops = 3
  MaxTokens = 4
  TurnTokens = 2
  MaxCalls = 2
  Room = 2
  Environment = {"disconnect", "raise", "cancel", "commit_fault"}
INVARIANTS StopsOnNeighbours NoTurnPastGuardrail EveryCallRecorded
PROPERTIES KeepsContract RunEnds
CHECK_DEADLOCK FALSE
