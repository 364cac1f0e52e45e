SPECIFICATION ContainersSpec
CONSTANTS
  Threads = {t1, t2, t3}
  None = None
  Pending = Pending
  Head = Head
  Sentinel = Sentinel
  Heads = {h1, h2}
  Kinds = {"harris", "michael", "shavit", "hash"}
  Keys = {1, 2}
  MoreKeys = {1, 2, 3, 4}
  Inf = 9
  Top = 1
  Weight = 2
SYMMETRY Symmetry
INVARIANTS InOrder OneStatic
PROPERTIES ListIsMap TreeIsMap SkipIsMap BonsaiIsMap QueueIsFifo
CHECK_DEADLOCK FALSE
