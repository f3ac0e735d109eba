SPECIFICATION MCSpec
CONSTANTS
  MaxPid = 3
  MaxChildren = 2
  PtableCap = 3
  Codes = {1}
  SProcs = {1, 2}
  SFirst = 1
  Signums = {2, 9, 15, 17}
  SIGKILL = 9
  SIGTERM = 15
  SIGCHLD = 17
  MaxAt = 1
  MaxKills = 2
  Caught = {2}
  HandlerCalls = {"kill"}
CHECK_DEADLOCK FALSE
INVARIANTS
  TypeOK
  NoLostChildExit
  NoDanglingEntry
  MaskedExitWhole
  StatusIsExitCode
  NotifiesLiveParent
PROPERTIES
  WaitReturns
  KillEnds
