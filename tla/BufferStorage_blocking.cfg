SPECIFICATION Spec
CONSTANTS
  c1 = c1
  c2 = c2
  c3 = c3
  t1 = t1
  t2 = t2
  b1 = b1
  b2 = b2
  None = None
  Buffers = {b1, b2}
  Calls = {c1, c2, c3}
  Threads = {t1, t2}
  Home <- SharedHome
  Capacity = 1
  Ops = {"get", "get_async"}
INVARIANT
  BlockedByOtherThread
CHECK_DEADLOCK FALSE
