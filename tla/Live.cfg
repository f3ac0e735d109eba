SPECIFICATION MCSpec
CONSTANTS
  r1 = r1
  r2 = r2
  Idle = Idle
  None = None
  Readers = {r1, r2}
  KBD_RING_SIZE = 2
  Lens = {1, 2}
  MaxKeys = 3
  IrqHitsLock = FALSE
  u1 = u1
  u2 = u2
  kidle = kidle
  Users = {u1, u2}
  InitThread = u1
  NCpu = 3
  MLFQ_LEVELS = 3
  QUEUE_DEPTH = 5
  BOOST_INTERVAL = 3
  MAX_STEAL_BATCH = 2
  p1 = p1
  p2 = p2
  PipeReaders = {p1}
  PipeWriters = {p2}
  Capacity = 2
  PipeLens = {1, 3}
  MaxCalls = 2
  shell = shell
  echo = echo
  cat = cat
  NFds = 5
  NPipes = 1
  RingCap = 1
  Words = 2
INVARIANTS
  NoLostKey
  ThreadsAccounted
PROPERTIES
  KeyIsRead
  WorkConserving
  NoStarvation
  ReadReturns
  WriteReturns
  PipelineReturns
