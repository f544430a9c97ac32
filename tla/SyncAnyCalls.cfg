SPECIFICATION SyncSpec
CONSTANTS
  MaxThreads = 3
  Queues = {l1, c1, q1}
  Locks = {l1}
  Cvs = {c1}
  l1 = l1
  c1 = c1
  q1 = q1
INVARIANTS
  SyncTypeOK NoSleeperOnFreeLock MutualExclusion HolderCanRun SleepersBelong
