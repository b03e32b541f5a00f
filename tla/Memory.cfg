SPECIFICATION Spec
CONSTANTS
  Run = {r1, r2}
  None = None
  HardCap = 6
  KeepCount = 5
  BatchSize = 2
  MaxTurns = 2
SYMMETRY RunSymmetry
INVARIANTS PositionsDense CapKept RunInOrder PayloadPaired
CHECK_DEADLOCK FALSE
