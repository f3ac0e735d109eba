SPECIFICATION PgSpec
CONSTANTS
  Fanout = 8
  PageUnits = 2
  EARLY_FRAMES = 28
  PhysLimit = 65536
  Machines <- MCBigMachines
  Bars <- MCBars
  PagingAps = {"ap1"}
  MaxTops = 4
CHECK_DEADLOCK FALSE
INVARIANT
  DirectMapCovers
