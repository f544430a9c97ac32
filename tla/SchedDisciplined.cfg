SPECIFICATION FairSpec
CONSTANTS
  MaxThreads = 3
  Queues = {q1}
  q1 = q1
INVARIANTS
  FlagTellsResumption NeverGoesWrong
PROPERTIES
  ReadyRuns ZombiesAreReaped
