SPECIFICATION Spec
CONSTANTS
  Request = {q1, q2, q3, q4, q5}
  None = None
SYMMETRY RequestSymmetry
INVARIANTS ToolsOfTransport Usable
PROPERTY DeletedStaysDeleted
CHECK_DEADLOCK FALSE
