SPECIFICATION Spec
CONSTANTS
  old = old
  new = new
  again = again
  p1 = p1
  p2 = p2
  t1 = t1
  t2 = t2
  d1 = d1
  None = None
  Versions <- SomeVersions
  Apis = {old, new, again}
  VersionOf <- SomeApis
  Placeholders = {p1, p2}
  Threads = {t1, t2}
  Wanted <- OneVersion
  Deps = {d1}
INVARIANT
  PlaceholdersFollow
CHECK_DEADLOCK FALSE
