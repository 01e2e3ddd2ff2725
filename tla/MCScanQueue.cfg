\* Two creators and a loop caller or an API thread, or one creator and both; fairness.
CONSTANTS
  a = a
  b = b
  t1 = t1
  t2 = t2
  None = None
  Creators = {a, b}
  Callers = {t1, t2}
  LoopCallers = {t1}
  Requests = {r1, r2, r3}
SPECIFICATION MCSpec
INVARIANTS
  EntriesAreLive
  FullIsKept
PROPERTY
  QueueMoves
