\* Two items of one name and of various kinds; one thing goes wrong besides requests.
CONSTANTS
  None = None
  m1 = m1
  m2 = m2
  Media = {m1, m2}
  Posts <- MCPosts
  Odd = {m2}
  NumVersions = 2
  Size <- MCSize
  MaxNames = 4
  MaxTroubles = 1
SPECIFICATION FairSpec
INVARIANTS
  OneWriter
  FiledIsWhole
PROPERTIES
  ArchiveIsKept
  GetsThere
CHECK_DEADLOCK FALSE
