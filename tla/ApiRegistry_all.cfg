SPECIFICATION Spec
CONSTANTS
  old = old
  new = new
  again = again
  p1 = p1
  p2 = p2
  t1 = t1
  t2 = t2
  d1 = d1
  None = None
  Versions <- SomeVersions
  Apis = {old, new, again}
  VersionOf <- SomeApis
  Placeholders = {p1, p2}
  Threads = {t1, t2}
  Wanted <- SomeVersions
  Deps = {d1}
SYMMETRY Symmetry
VIEW LiveView
INVARIANTS
  TypeOK
  HandleServes
PROPERTIES
  OnlySetsReplace
  SetReachesEveryEntry
CHECK_DEADLOCK FALSE
