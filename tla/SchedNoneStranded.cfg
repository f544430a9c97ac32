SPECIFICATION DisciplinedSpec
CONSTANTS
  MaxThreads = 3
  Queues = {q1}
  q1 = q1
INVARIANT
  NoneStranded
