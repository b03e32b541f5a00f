SPECIFICATION FairSpec
CONSTANTS
  Request = {q1}
  Task = {t1}
  NoRequest = NoRequest
  MaxIterations = 1
  BatchSize = 1
  Modes = {"simple"}
  Environments = {{"disconnect", "early"}}
PROPERTIES RunsSettle
CHECK_DEADLOCK FALSE
