SPECIFICATION Spec
CONSTANTS
  Owner = {o1, o2, o3}
  Caller = {c1, c2}
  None = None
SYMMETRY RequestSymmetry
INVARIANTS ToggleSticks NothingOrphaned LastCredentialWins PromptsForMode
CHECK_DEADLOCK FALSE
