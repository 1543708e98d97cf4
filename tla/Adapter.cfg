SPECIFICATION FairSpec
CONSTANTS
  e1 = e1
  e2 = e2
  a1 = a1
  a2 = a2
  rec1 = rec1
  s1 = s1
  s2 = s2
  c1 = c1
  c2 = c2
  c3 = c3
  w1 = w1
  w2 = w2
  t = t
  d = d
  f = f
  n = n
  nz = nz
  g = g
  m = m
  x = x
  y = y
  None = None
  Mode = {"plain", "user", "system"}
  Exec = {e1, e2}
  PinnedImage = TRUE
  MaxReaps = 1
  MaxCrashes = 1
  App = {a1, a2}
  Rec = {rec1}
  Stopper = {s1, s2}
  MaxTracked = 1
  Path <- Paths
  Above <- Directories
  Frozen = {d}
  Content = {x, y}
  InitialFile <- Files0
  Target = {f, g}
  Replacer = {c1, c2}
  Editor = {w1}
  MaxEdits = 1
  MaxRules = 2
INVARIANTS NothingOutlives OutcomeHonest PodsAccounted ResourcesAccounted
PROPERTIES ReapSparesYoung ReplacesExpected FrozenEntriesStay EveryCommandReturns
CHECK_DEADLOCK FALSE
