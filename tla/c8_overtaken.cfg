SPECIFICATION Spec
CONSTANTS
  NB_SEGMENTS = 2
  Objects = {a}
  Values = {v1,v2}
  NULL = NULL
  MAX_LOG = 1
  OVERTAKING = TRUE
INVARIANTS AllChangesApplied
