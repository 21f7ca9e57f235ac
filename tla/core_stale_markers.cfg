SPECIFICATION Spec
CONSTANTS
  NB_SEGMENTS = 2
  Threads = {t1,t2}
  Objects = {a}
  Values = {v1}
  NULL = NULL
  MAX_VERSION = 2
  SPURIOUS = FALSE
  Requests = {"safe_point", "commit", "inevitable", "unique", "abort"}
SYMMETRY Symmetry
INVARIANTS ConflictsAreReal
