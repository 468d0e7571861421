SPECIFICATION Spec
CONSTANTS
  f = f
  g = g
  NULL = NULL
  Name <- MCName
  NumSectors = 16
  SectorSize = 2
  NumDirect = 2
  L1_INDEX_NUM = 2
  NumDirEntries = 2
  Size = {3, 5, 9}
  Data <- MCData
  Byte = {0, 1, 2, 3}
  Pad = {3}
  Position = {1}
  Leftover = {0}
  IndexedUse = FALSE
  ClosesFirst = TRUE
SYMMETRY MCSymmetry
INVARIANTS SectorsDisjoint MapExact ContentsKept
\* A disk on which an operation was cut short is only looked at.
CHECK_DEADLOCK FALSE
