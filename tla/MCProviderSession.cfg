\* Two tasks of one provider, two sessions to sign in with, fairness.
CONSTANTS
  None = None
  Credentials = {a, b}
  Tasks = {t1, t2}
  MaxClients = 3
  MaxSaves = 2
  MaxFaults = 1
  MaxAttempts = 2
SPECIFICATION MCSpec
INVARIANTS
  ClientIsUsable
PROPERTIES
  WorkingIsUsed
CHECK_DEADLOCK FALSE
