SPECIFICATION Spec
CONSTANTS
  NB_SEGMENTS = 2
  Objects = {o1, o2, o3}
  NULL = NULL
  Kinds = {"plain", "light", "final", "weak"}
  ALLOWED = {}
SYMMETRY Symmetry
CONSTRAINT Bound
INVARIANTS KeptAlive FinalizedOnce
PROPERTIES WeakrefsFollowTarget OutermostFirst
