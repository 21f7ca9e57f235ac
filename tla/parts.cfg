SPECIFICATION PartsSpec
CONSTANTS
  NULL = NULL
  NB_SEGMENTS = 2
  Layout <- MCLayout
  UsesCards = {"arr"}
  Prebuilt = {"arr"}
  NB_PAGES = 4
  GCPAGE_NUM_PAGES = 1
  PAGE_SIZE = 2
  GC_MIN = 6
  MAX_OPS = 4
  MIXED_BARRIERS = FALSE
  Objects = {a}
  Values = {v1}
  MAX_LOG = 2
  OVERTAKING = FALSE
  Segments = {1, 2}
  INITIAL_HASHTABLE_SIZE = 2
  NB_ENTRIES = 3
  NB_TABLES = 4
  ALLOCATION_COLLECTS = FALSE
  v = v
  Arenas = {16, 20}
  Requests = {1, 3, 5}
  Threads = {t1, t2}
  t1 = t1
  t2 = t2
  A = A
  B = B
  Ids = {1, 2, 3, 4, 5}
  GIL_RETRY_MAX = 2
  TRANSIENT_RETRY_MAX = 2
  Kinds = {"c4 g2l", "c7 tree", "c8 tree", "list", "gcptrlist", "fxcache"}
  Addrs = {1, 2, 3, 5, 7}
  Items = {1, 2}
  TREE_BITS = 1
  TREE_DEPTH_MAX = 3
  MAX_ALLOC = 130
  LIST_INITIAL = 2
  LIST_EXTRA = 3
  MAX_ITEMS = 3
  FX_ENTRIES = 6
  Keys = {k1}
  Numbers = {1, 2}
  Roots = {r1}
  MAX_FRAMES = 3
  MAX_RESTARTS = 1
INVARIANTS SegmentsAgree LocksMatchLists MemoryIsAccounted NoCircularWait EntriesStay ArenaIsWhole ElisionIsSafe ContainersHold AbortsStartOver
PROPERTIES RetriesEnd
