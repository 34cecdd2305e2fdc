SPECIFICATION WorkersSpec
CONSTANTS
  w1 = w1
  w2 = w2
  j1 = j1
  j2 = j2
  NoJob = NoJob
  NoWorker = NoWorker
  Workers = {w1, w2}
  Jobs = {j1, j2}
  MaxAttempts = 2
  Lease = 2
  BackoffBase = 1
  BackoffCap = 2
  MaxStall = 1
  MaxCrashes = 1
  MaxResets = 0
  Timely = TRUE
  Machines = {w1, w2}
  DayLength = 2
  HourOfDay = 1
  Interval = 1
  MaxDrain = 1
  MaxInstant = 5
  MaxDeaths = 1
INVARIANTS SoleExecutor OneRunADay
PROPERTIES WorkGoesOn
