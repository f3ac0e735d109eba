SPECIFICATION Spec
CONSTANTS
  r1 = r1
  r2 = r2
  Idle = Idle
  None = None
  Readers = {r1, r2}
  KBD_RING_SIZE = 2
  Lens = {1, 2}
  MaxKeys = 4
  IrqHitsLock = TRUE
INVARIANT
  NoSelfDeadlock
