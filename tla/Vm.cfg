SPECIFICATION Spec
CONSTANTS
  p1 = p1
  p2 = p2
  Procs = {p1, p2}
  First = p1
  Spaces <- MCSpaces
  Pages <- MCPages
  Text = 1
  Stack = 2
  Base = 3
  RegionEnd = 3
  NFrames = 8
  CowCap = 8
  CacheCap = 2
  MaxVmas = 1
  Offsets <- MCOffsets
  FileSize = 1
  Stored = {"new"}
  Touched = {2, 3}
  TidyExit = TRUE
INVARIANTS MemoryLive CowExact
PROPERTIES PrivateMemorySpec
CHECK_DEADLOCK FALSE
VIEW MCView
SYMMETRY MCSymmetry
