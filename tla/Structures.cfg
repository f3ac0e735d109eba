SPECIFICATION MCSpec
CONSTANTS
  r1 = r1
  w1 = w1
  r2 = r2
  w2 = w2
  Readers = {r1, r2}
  Writers = {w1, w2}
  Capacity = 2
  Lens = {3}
  MaxCalls = 2
  t1 = t1
  t2 = t2
  t3 = t3
  t4 = t4
  MutexThreads = {t1, t2, t3, t4}
  q1 = q1
  x1 = x1
  x2 = x2
  SeqReaders = {q1}
  SeqWriters = {x1, x2}
  MaxSeq = 6
  i1 = i1
  i2 = i2
  p1 = p1
  p2 = p2
  RingLen = 2
  RingItems = {i1, i2}
  RingProducers = {p1, p2}
  RingMaxPos = 5
  u1 = u1
  u2 = u2
  Users = {u1, u2}
  SlabNodes = {1, 2, 3}
  Null = 0
  MaxTag = 3
  c1 = c1
  c2 = c2
  MAX_ORDER = 2
  LowLimit = 4
  MAX_LOW_FRAME_TRIES = 2
  TRACK_LIMIT = 11
  MemCpus = {c1, c2}
SYMMETRY EndSymmetry
INVARIANTS
  NoLostReadWake
  NoLostWriteWake
  NoForgottenWaiter
  NoTornRead
  ObjectsAccounted
  FramesPartitioned
PROPERTY
  RingsAreFifos
