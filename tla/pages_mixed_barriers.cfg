CONSTANTS
NB_SEGMENTS = 2
NULL = NULL
Layout <- MCLayout
UsesCards = {"arr"}
Prebuilt = {"arr"}
NB_PAGES = 4
GCPAGE_NUM_PAGES = 1
PAGE_SIZE = 2
GC_MIN = 6
MAX_OPS = 4
MIXED_BARRIERS = TRUE
SPECIFICATION Spec
INVARIANTS SegmentsAgree
CHECK_DEADLOCK FALSE

