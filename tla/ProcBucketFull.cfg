SPECIFICATION Spec
CONSTANTS
  MaxPid = 2
  MaxChildren = 1
  PtableCap = 1
  Codes = {1}
CHECK_DEADLOCK FALSE
INVARIANT
  NoLostChildExit
