SPECIFICATION Spec
CONSTANTS
  Starters = {c1, c2}
  Reviewers = {}
  NumSteps = 2
  Gates = {2}
  MaxStepAttempts = 2
  MaxRetries = 0
  MaxAborts = 0
CHECK_DEADLOCK FALSE
INVARIANTS SoleExecutor
