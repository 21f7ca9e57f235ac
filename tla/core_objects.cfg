SPECIFICATION Spec
CONSTANTS
  NB_SEGMENTS = 2
  Threads = {t1,t2}
  Objects = {a,b}
  Values = {v1,v2}
  NULL = NULL
  MAX_VERSION = 1
  SPURIOUS = FALSE
  Requests = {"safe_point", "commit", "inevitable", "unique", "abort"}
SYMMETRY Symmetry
INVARIANTS TypeOK LockOwnership Isolation Opacity
PROPERTIES InevitableIsNeverUndone ImplementsAtomicStm
