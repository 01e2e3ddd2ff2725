\* Two items; two of the things that a bound counts happen.
CONSTANTS
  None = None
  Items = {i1, i2}
  MaxNames = 3
  MinFiles = 2
  MaxTroubles = 2
SPECIFICATION FairSpec
INVARIANTS
  PictureIsKept
  ArchiveStays
PROPERTY RowsComeToMatch
CHECK_DEADLOCK FALSE
