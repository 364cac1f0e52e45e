SPECIFICATION FairSpec
CONSTANTS
  c1 = c1
  c2 = c2
  c3 = c3
  t1 = t1
  t2 = t2
  b1 = b1
  b2 = b2
  None = None
  Buffers = {b1, b2}
  Calls = {c1, c2, c3}
  Threads = {c1, c2, c3}
  Home <- OwnHome
  Capacity = 1
  Ops = {"get", "get_async"}
INVARIANTS
  SingleFlight
  CachedIsLoaded
  NeverNull
PROPERTIES
  PlaceholderResolved
  ImplementsDemandCache
CHECK_DEADLOCK FALSE
