SPECIFICATION Spec
CONSTANTS
  NB_SEGMENTS = 2
  Objects = {a,b}
  Values = {v1,v2}
  NULL = NULL
  MAX_LOG = 1
  OVERTAKING = FALSE
SYMMETRY Symmetry
INVARIANTS AllChangesApplied Opacity InevitableHoldsTheLog PrivateWhenWritten
PROPERTIES ImplementsAtomicStm
