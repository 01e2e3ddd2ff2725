\* Two workers, paced, with a restart: three jobs of two creators, or two jobs and
\* deletions.
CONSTANTS
  c1 = c1
  c2 = c2
  j1 = j1
  j2 = j2
  j3 = j3
  None = None
  Creators = {c1, c2}
  CreatorOf <- TwoCreators
  Jobs = {j1, j2, j3}
  Workers = {w1, w2}
  Cap = 1
  Limit = 2
  Spread = TRUE
  Hour = 3
  MaxRestarts = 1
SPECIFICATION MCSpec
INVARIANTS
  LimitHoldsUntilRestart
  CapHolds
PROPERTIES
  GapHolds
  QueuedStarts
