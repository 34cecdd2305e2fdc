SPECIFICATION FairSpec
CONSTANTS
  s1 = s1
  s2 = s2
  p1 = p1
  p2 = p2
  e1 = e1
  e2 = e2
  None = None
  Schedules = {s1, s2}
  Anchored = {s1}
  Tickers = {p1, p2}
  Editors = {e1}
  Period = 2
  MaxTime = 4
  MaxEdits = 1
  MaxCrashes = 1
CHECK_DEADLOCK FALSE
INVARIANTS TypeOK FiredOnce
PROPERTIES DueFires
