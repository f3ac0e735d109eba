SPECIFICATION Spec
CONSTANTS
  u1 = u1
  u2 = u2
  kidle = kidle
  Idle = Idle
  Users = {u1, u2}
  InitThread = u1
  NCpu = 3
  MLFQ_LEVELS = 3
  QUEUE_DEPTH = 5
  BOOST_INTERVAL = 4
  MAX_STEAL_BATCH = 2
INVARIANT
  FpuPreserved
