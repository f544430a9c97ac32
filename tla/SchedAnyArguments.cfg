SPECIFICATION Spec
CONSTANTS
  MaxThreads = 4
  Queues = {q1}
  q1 = q1
INVARIANTS
  TypeOK Accounted
PROPERTIES
  KilledStaysKilled ReadyIsFifo WakeupsKeepOrder WaitersLeaveAtExit
