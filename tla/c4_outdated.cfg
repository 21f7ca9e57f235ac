\* A third thread collects after it has stolen what the second one changed.
CONSTANTS
  t1 = t1
  t2 = t2
  t3 = t3
  Threads = {t1, t2, t3}
  a = a
  b = b
  new = new
  u = u
  w = w
  Objects = {a}
  Values = {u}
  NULL = NULL
  Prebuilt <- OnlyA
  NB_CELLS = 8
  Programs <- OutdatedRead
  STACK = 0
  NURSERY = 4
SPECIFICATION SpecCollect
INVARIANT Opacity
