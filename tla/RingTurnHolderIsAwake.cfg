SPECIFICATION RingSpec
CONSTANTS
  MaxThreads = 4
  N = 3
  LOOPS = 2
  Queues = {lk, c1, c2, c3}
  Locks = {lk}
  Cvs = {c1, c2, c3}
  lk = lk
  c1 = c1
  c2 = c2
  c3 = c3
  Signal <- MCSignal
INVARIANT
  TurnHolderIsAwake
