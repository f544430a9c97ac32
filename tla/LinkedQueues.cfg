SPECIFICATION LinkedSpec
CONSTANTS
  MaxThreads = 4
  Queues = {q1}
  q1 = q1
  Victims = {3}
  Maskers = {3}
INVARIANTS
  LinkedTypeOK NoDanglingPointers WaitSizesAreLengths MaskIsKept
PROPERTY
  ImplementsSched
