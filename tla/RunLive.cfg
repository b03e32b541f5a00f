SPECIFICATION FairSpec
CONSTANTS
  Request = {q1, q2}
  Task = {t1}
  NoRequest = NoRequest
  MaxIterations = 2
  BatchSize = 1
  Modes = {"simple", "react"}
  Environments = {{"disconnect", "raise", "cancel"}}
INVARIANTS RepliesTellTruth
PROPERTIES RunsSettle DrivenRunsKeepContract
CHECK_DEADLOCK FALSE
