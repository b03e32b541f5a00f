SPECIFICATION Spec
CONSTANTS
  Request = {q1, q2, q3}
  Task = {t1}
  NoRequest = NoRequest
  MaxIterations = 1
  BatchSize = 1
  Modes = {"simple", "react"}
  Environments = {{"cancel", "disconnect"}}
SYMMETRY Interchangeable
INVARIANTS BatchInvokedOnce
CHECK_DEADLOCK FALSE
