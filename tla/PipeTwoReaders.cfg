SPECIFICATION UniSpec
CONSTANTS
  r1 = r1
  r2 = r2
  w1 = w1
  Readers = {r1, r2}
  Writers = {w1}
  Capacity = 2
  Lens = {1, 2}
  MaxCalls = 2
INVARIANT
  NoStrandedReader
