\* A source listed page by page and one listed whole, with fairness.
CONSTANTS
  Absent = Absent
  NumSources = 2
  Whole = {2}
  NumPosts = 3
  NumOthers = 1
  PageSize = 2
  Overlap = 2
  MaxEdits = 1
  MaxRestarts = 1
  MaxCreators = 1
SPECIFICATION FairRunSpec
INVARIANTS
  NoOrphanRun
PROPERTIES
  FullSeesAll
  NoGap
  SeenInTheEnd
