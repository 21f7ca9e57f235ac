SPECIFICATION Spec
CONSTANTS
  NB_SEGMENTS = 1
  Objects = {o1, o2, o3}
  NULL = NULL
  Kinds = {"final"}
  ALLOWED = {"stale count"}
SYMMETRY Symmetry
INVARIANT KeptAlive
