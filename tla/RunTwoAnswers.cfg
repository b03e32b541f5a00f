SPECIFICATION Spec
CONSTANTS
  Request = {q1, q2, q3}
  Task = {t1}
  NoRequest = NoRequest
  MaxIterations = 1
  BatchSize = 1
  Modes = {"simple"}
  Environments = {{"concurrent_resume"}}
SYMMETRY Interchangeable
INVARIANTS CallsInvokedOnce
CHECK_DEADLOCK FALSE
