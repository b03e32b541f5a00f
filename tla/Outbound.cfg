SPECIFICATION FairSpec
CONSTANTS
  Turn = {t1}
  Discovery = {d1, d2, d3}
  Attempts = 3
  MaxCalls = 2
INVARIANTS StopsSoon OutlivesAtKeepAlive PatchContained
PROPERTIES KeepsPolicy TurnsEnd
CHECK_DEADLOCK FALSE
