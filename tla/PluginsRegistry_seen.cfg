SPECIFICATION Spec
CONSTANTS
  t1 = t1
  t2 = t2
  t3 = t3
  p1 = p1
  p2 = p2
  d1 = d1
  d2 = d2
  d3 = d3
  d4 = d4
  d5 = d5
  d6 = d6
  h1 = h1
  h2 = h2
  Clients = {t2}
  Tickers = {t1}
  Paths = {p1}
  Built = {p1}
  Loads <- HotOnly
  Plugins = {d1, d2, d3, d4, d5, d6}
  Handles = {h1}
  Rounds = 2
  SameSecond = {FALSE}
  None = None
VIEW Nameless
INVARIANTS
  ChangesAreSeen
