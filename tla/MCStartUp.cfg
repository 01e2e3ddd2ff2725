SPECIFICATION Spec

CONSTANTS
  MaxAttempts = 1
  Threads = {t1, t2}
  MaxFailures = 1
  MaxEpoch = 2
  MaxPasswords = 1
  MaxFaults = 2
  Posts = 2
  Batch = 1
  RulesVersion = 3
  OldStatuses = {"pending", "completed"}
  OldItems <- MCOldItems
  Mixes <- MCMixes
  Spoils <- MCSpoils

INVARIANT CacheIsStored
INVARIANT LoggedOutStaysOut
INVARIANT ResetOnce
INVARIANT RowsFollowTheRules

PROPERTY NothingIsWrittenBack
PROPERTY ComesUp

CHECK_DEADLOCK FALSE
