\* Two or three threads, the programs of MCC4Stm.
CONSTANTS
  t1 = t1
  t2 = t2
  t3 = t3
  Threads = {t1, t2, t3}
  a = a
  b = b
  new = new
  u = u
  w = w
  Objects = {a, b, new}
  Values = {u, w}
  NULL = NULL
  Prebuilt <- AandB
  NB_CELLS = 14
  Programs <- Scenarios
  STACK = 1
  NURSERY = 1
SPECIFICATION SpecCollect
INVARIANTS Opacity Serializable CurrentVersion PointOfNoReturn HeapIsSound
