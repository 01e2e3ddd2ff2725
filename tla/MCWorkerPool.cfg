\* Two workers at most, one job; two calls of the user, two faults.
CONSTANTS
  None = None
  Jobs = {j1}
  MaxConcurrency = 2
  MaxCalls = 2
  MaxFaults = 2
SPECIFICATION FairSpec
INVARIANTS
  RunningHasWorker
  PauseHolds
PROPERTIES
  QueuedRuns
CHECK_DEADLOCK FALSE
