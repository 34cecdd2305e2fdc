SPECIFICATION Spec
CONSTANTS
  w1 = w1
  w2 = w2
  j1 = j1
  j2 = j2
  NoJob = NoJob
  NoWorker = NoWorker
  Workers = {w1, w2}
  Jobs = {j1, j2}
  MaxAttempts = 2
  Lease = 1
  BackoffBase = 1
  BackoffCap = 2
  MaxStall = 1
  MaxCrashes = 1
  MaxResets = 1
  Timely = FALSE
SYMMETRY Symmetry
INVARIANTS TypeOK
PROPERTIES LeasesFence SettledOnce ImplementsLifecycle
