SPECIFICATION HttpSpec
CONSTANTS
  Testers = {t}
  Simples = {s}
  MayLeave = {s}
  SocketSize = 2
  Original <- MCOriginal
  Regenerated <- MCRegenerated
  t = t
  s = s
INVARIANTS
  HttpTypeOK NoFailureOfItsOwn ReplyIsConsistent
PROPERTY
  EveryClientDone
CHECK_DEADLOCK FALSE
