SPECIFICATION FairSpec
CONSTANTS
  c1 = c1
  c2 = c2
  t1 = t1
  t2 = t2
  Call = {c1, c2}
  Tool = {t1, t2}
  Allowed = {t1}
  PageOf <- Pages
  LastPage = 2
  Session = {1, 2}
  NoSession = 0
  MaxConcurrent = 1
  MaxChanges = 1
INVARIANTS ActiveExact ClosedIsQuiet
PROPERTIES SentHonest EveryCallAnswered
CHECK_DEADLOCK FALSE
